---- MODULE Spec2Model ----
\* A model of src/analysis/load_spectra.py: the two tar-archive helpers
\* (tar_wrapper_single, tar_wrapper_multiple) and the loaders
\* (load_acetonitrile_spectra, load_cc124_tap_spectra, load_chlamy_spectra).
EXTENDS Integers, Sequences, FiniteSets, TLC

\* ------------------------------------------------------------------ bounds
MaxFilenames == 2      \* longest list handed to tar_wrapper_multiple
MaxLen == 1            \* longest archive member, in bytes
MaxByte == 1           \* bytes are 0..MaxByte
MaxWalk == 2           \* most files os.walk yields in one run

\* ------------------------------------------------------- inputs of the tar helpers
MemberNames == {"a", "b"}

RECURSIVE SeqsUpTo(_, _)
SeqsUpTo(S, n) ==
  IF n = 0 THEN {<<>>}
  ELSE LET shorter == SeqsUpTo(S, n - 1)
       IN shorter \cup {Append(s, x) : s \in {t \in shorter : Len(t) = n - 1}, x \in S}

Contents == SeqsUpTo(0..MaxByte, MaxLen)

\* What the archive holds under a name: nothing, a directory, a regular file.
Members ==
  {[kind |-> "missing", data |-> <<>>], [kind |-> "dir", data |-> <<>>]}
    \cup {[kind |-> "file", data |-> d] : d \in Contents}

Archives == [MemberNames -> Members]

\* Names tempfile can hand out; there is always an unused one.
TmpNames == 1..(MaxFilenames + 1)

\* The callable is arbitrary: it returns some value or raises.
FunctionResults == {"r1", "r2"}
FunctionErrors == {"FnError"}
FunctionOutcomes ==
  {[kind |-> "return", value |-> r] : r \in FunctionResults}
    \cup {[kind |-> "raise", value |-> e] : e \in FunctionErrors}

NoOutcome == [kind |-> "none", value |-> ""]
Returned(v) == [kind |-> "return", value |-> v]
Raised(e) == [kind |-> "raise", value |-> e]

UNBOUND == "<unbound>"      \* a local name that was never assigned
NONE == [kind |-> "none", data |-> <<>>]   \* Python's None as a tar member

VARIABLES
  op,             \* which function of the module is running
  pc,             \* the position inside it
  archive,        \* the content of the tar file at tarpath
  filenames,      \* argument of tar_wrapper_multiple
  filename,       \* argument of tar_wrapper_single / loop variable
  idx,            \* position of the for loops (next element, 1-based)
  tar_member,     \* result of tar.extractfile
  tmp_file,       \* name of the temporary file currently open (0: none)
  tmp_filenames,  \* list built by tar_wrapper_multiple
  fs,             \* the temporary directory: name -> bytes on disk
  buf,            \* bytes written to tmp_file and not yet on disk
  created,        \* names of the temporary files the call created
  removed,        \* names passed to a successful os.remove, in order
  calls,          \* the calls of `function` made so far
  pending,        \* the exception being propagated ("" : none)
  out,            \* local variable out
  outcome,        \* how the running function ended
  scan,           \* intensities read from the Renishaw multipoint file
  spectra,        \* list of spectra returned by a loader
  dataframe,      \* metadata table returned by a loader
  visited,        \* (root, filename) pairs os.walk has yielded so far
  instrument_data, wavelength_data, well_id_data, site_data,
  reads           \* the file paths the chlamy reader was called with

tarVars == <<archive, filenames, filename, idx, tar_member, tmp_file,
             tmp_filenames, fs, buf, created, removed, calls, pending, out>>
loadVars == <<scan, spectra, dataframe>>
chlamyVars == <<visited, instrument_data, wavelength_data, well_id_data,
                site_data, reads>>
vars == <<op, pc, outcome, tarVars, loadVars, chlamyVars>>

\* ------------------------------------------------------------- file system
Exists(p) == p \in DOMAIN fs

\* tempfile opens a new file under a name that does not exist yet.
\* (AnyNames: a tempfile that could hand out a name already in use.)
AnyNames(f) == TmpNames
FreshNames(f) == TmpNames \ DOMAIN f

CreateFile(f, p) == [q \in DOMAIN f \cup {p} |-> IF q = p THEN <<>> ELSE f[q]]
WriteFile(f, p, d) == [f EXCEPT ![p] = f[p] \o d]
RemoveFile(f, p) == [q \in DOMAIN f \ {p} |-> f[q]]

Rest(d, k) == SubSeq(d, k + 1, Len(d))

\* tar.extractfile: KeyError for an unknown name (handled by the callers
\* below), None for a member that is not a regular file, else a reader.
ExtractFile(a, n) == IF a[n].kind = "file" THEN a[n] ELSE NONE

\* What a call of function(*paths) is given: the paths, and what is on disk
\* under each of them at that moment.
CallRecord(paths, res) ==
  [args   |-> paths,
   exist  |-> [i \in 1..Len(paths) |-> paths[i] \in DOMAIN fs],
   seen   |-> [i \in 1..Len(paths) |->
                 IF paths[i] \in DOMAIN fs THEN fs[paths[i]] ELSE <<>>],
   result |-> res]

Finish(o) == pc' = "done" /\ outcome' = o

\* ------------------------------------------------------ tar_wrapper_single
\* line 26: tar_member = tar.extractfile(filename)
SingleExtract ==
  /\ op = "single" /\ pc = "s_extract"
  /\ IF archive[filename].kind = "missing"
       THEN /\ Finish(Raised("KeyError"))
            /\ UNCHANGED tar_member
       ELSE /\ tar_member' = ExtractFile(archive, filename)
            /\ pc' = "s_mktemp"
            /\ UNCHANGED outcome
  /\ UNCHANGED <<op, archive, filenames, filename, idx, tmp_file, tmp_filenames,
                 fs, buf, created, removed, calls, pending, out,
                 loadVars, chlamyVars>>

\* line 27: with tempfile.NamedTemporaryFile(delete=True) as tmp_file
SingleMktemp ==
  /\ op = "single" /\ pc = "s_mktemp"
  /\ \E t \in FreshNames(fs) :
       /\ tmp_file' = t
       /\ fs' = CreateFile(fs, t)
       /\ created' = created \cup {t}
  /\ buf' = <<>>
  /\ pc' = "s_copy"
  /\ UNCHANGED <<op, outcome, archive, filenames, filename, idx, tar_member,
                 tmp_filenames, removed, calls, pending, out,
                 loadVars, chlamyVars>>

\* line 28: shutil.copyfileobj(tar_member, tmp_file); how much of the data
\* reaches the disk before a flush is up to the buffering.
SingleCopy ==
  /\ op = "single" /\ pc = "s_copy"
  /\ IF tar_member = NONE
       THEN /\ pending' = "AttributeError"
            /\ pc' = "s_exit"
            /\ UNCHANGED <<fs, buf>>
       ELSE /\ \E k \in 0..Len(tar_member.data) :
                 /\ fs' = WriteFile(fs, tmp_file, SubSeq(tar_member.data, 1, k))
                 /\ buf' = Rest(tar_member.data, k)
            /\ pc' = "s_flush"
            /\ UNCHANGED pending
  /\ UNCHANGED <<op, outcome, archive, filenames, filename, idx, tar_member,
                 tmp_file, tmp_filenames, created, removed, calls, out,
                 loadVars, chlamyVars>>

\* line 29: tmp_file.flush()  (FlushNothing: the line left out)
FlushNothing(f, p, b) == f
Flush(f, p, b) == WriteFile(f, p, b)

SingleFlush ==
  /\ op = "single" /\ pc = "s_flush"
  /\ fs' = Flush(fs, tmp_file, buf)
  /\ buf' = <<>>
  /\ pc' = "s_call"
  /\ UNCHANGED <<op, outcome, archive, filenames, filename, idx, tar_member,
                 tmp_file, tmp_filenames, created, removed, calls, pending, out,
                 loadVars, chlamyVars>>

\* line 30: out = function(tmp_file.name, **kwargs)
SingleCall ==
  /\ op = "single" /\ pc = "s_call"
  /\ \E res \in FunctionOutcomes :
       /\ calls' = Append(calls, CallRecord(<<tmp_file>>, res))
       /\ IF res.kind = "return"
            THEN out' = res.value /\ UNCHANGED pending
            ELSE pending' = res.value /\ UNCHANGED out
  /\ pc' = "s_exit"
  /\ UNCHANGED <<op, outcome, archive, filenames, filename, idx, tar_member,
                 tmp_file, tmp_filenames, fs, buf, created, removed,
                 loadVars, chlamyVars>>

\* lines 27, 25: leaving the two with blocks closes the temporary file, which
\* deletes it (delete=True), and closes the archive.
SingleExit ==
  /\ op = "single" /\ pc = "s_exit"
  /\ fs' = RemoveFile(fs, tmp_file)
  /\ buf' = <<>>
  /\ tmp_file' = 0
  /\ IF pending # ""
       THEN Finish(Raised(pending))
       ELSE pc' = "s_return" /\ UNCHANGED outcome
  /\ UNCHANGED <<op, archive, filenames, filename, idx, tar_member,
                 tmp_filenames, created, removed, calls, pending, out,
                 loadVars, chlamyVars>>

\* line 31: return out
SingleReturn ==
  /\ op = "single" /\ pc = "s_return"
  /\ Finish(Returned(out))
  /\ UNCHANGED <<op, tarVars, loadVars, chlamyVars>>

\* ---------------------------------------------------- tar_wrapper_multiple
\* line 44: for filename in filenames
MultiLoop ==
  /\ op = "multiple" /\ pc = "m_loop"
  /\ IF idx <= Len(filenames)
       THEN filename' = filenames[idx] /\ pc' = "m_extract"
       ELSE UNCHANGED filename /\ pc' = "m_check"
  /\ UNCHANGED <<op, outcome, archive, filenames, idx, tar_member, tmp_file,
                 tmp_filenames, fs, buf, created, removed, calls, pending, out,
                 loadVars, chlamyVars>>

\* line 45: tar_member = tar.extractfile(filename)
MultiExtract ==
  /\ op = "multiple" /\ pc = "m_extract"
  /\ IF archive[filename].kind = "missing"
       THEN /\ Finish(Raised("KeyError"))
            /\ UNCHANGED tar_member
       ELSE /\ tar_member' = ExtractFile(archive, filename)
            /\ pc' = "m_mktemp"
            /\ UNCHANGED outcome
  /\ UNCHANGED <<op, archive, filenames, filename, idx, tmp_file, tmp_filenames,
                 fs, buf, created, removed, calls, pending, out,
                 loadVars, chlamyVars>>

\* line 46: with tempfile.NamedTemporaryFile(delete=False) as tmp_file
MultiMktemp ==
  /\ op = "multiple" /\ pc = "m_mktemp"
  /\ \E t \in FreshNames(fs) :
       /\ tmp_file' = t
       /\ fs' = CreateFile(fs, t)
       /\ created' = created \cup {t}
  /\ buf' = <<>>
  /\ pc' = "m_copy"
  /\ UNCHANGED <<op, outcome, archive, filenames, filename, idx, tar_member,
                 tmp_filenames, removed, calls, pending, out,
                 loadVars, chlamyVars>>

\* line 47: shutil.copyfileobj(tar_member, tmp_file). On None it raises; the
\* with block then closes the file, which stays on disk (delete=False).
MultiCopy ==
  /\ op = "multiple" /\ pc = "m_copy"
  /\ IF tar_member = NONE
       THEN /\ Finish(Raised("AttributeError"))
            /\ tmp_file' = 0
            /\ UNCHANGED <<fs, buf>>
       ELSE /\ \E k \in 0..Len(tar_member.data) :
                 /\ fs' = WriteFile(fs, tmp_file, SubSeq(tar_member.data, 1, k))
                 /\ buf' = Rest(tar_member.data, k)
            /\ pc' = "m_close"
            /\ UNCHANGED <<outcome, tmp_file>>
  /\ UNCHANGED <<op, archive, filenames, filename, idx, tar_member,
                 tmp_filenames, created, removed, calls, pending, out,
                 loadVars, chlamyVars>>

\* line 48: tmp_file.close() writes the buffered bytes out
MultiClose ==
  /\ op = "multiple" /\ pc = "m_close"
  /\ fs' = Flush(fs, tmp_file, buf)
  /\ buf' = <<>>
  /\ pc' = "m_append"
  /\ UNCHANGED <<op, outcome, archive, filenames, filename, idx, tar_member,
                 tmp_file, tmp_filenames, created, removed, calls, pending, out,
                 loadVars, chlamyVars>>

\* line 49: tmp_filenames.append(tmp_file.name)
\* (AppendNameFront: insert(0, ...) in its place)
AppendNameFront(names, n) == <<n>> \o names
AppendName(names, n) == Append(names, n)

MultiAppend ==
  /\ op = "multiple" /\ pc = "m_append"
  /\ tmp_filenames' = AppendName(tmp_filenames, tmp_file)
  /\ tmp_file' = 0
  /\ idx' = idx + 1
  /\ pc' = "m_loop"
  /\ UNCHANGED <<op, outcome, archive, filenames, filename, tar_member,
                 fs, buf, created, removed, calls, pending, out,
                 loadVars, chlamyVars>>

\* line 51: if tmp_filenames
MultiCheck ==
  /\ op = "multiple" /\ pc = "m_check"
  /\ pc' = IF tmp_filenames # <<>> THEN "m_call" ELSE "m_return"
  /\ idx' = 1
  /\ UNCHANGED <<op, outcome, archive, filenames, filename, tar_member, tmp_file,
                 tmp_filenames, fs, buf, created, removed, calls, pending, out,
                 loadVars, chlamyVars>>

\* line 53: out = function(*tmp_filenames, **kwargs)
MultiCall ==
  /\ op = "multiple" /\ pc = "m_call"
  /\ \E res \in FunctionOutcomes :
       /\ calls' = Append(calls, CallRecord(tmp_filenames, res))
       /\ IF res.kind = "return"
            THEN out' = res.value /\ UNCHANGED pending
            ELSE pending' = res.value /\ UNCHANGED out
  /\ pc' = "m_finally"
  /\ UNCHANGED <<op, outcome, archive, filenames, filename, idx, tar_member,
                 tmp_file, tmp_filenames, fs, buf, created, removed,
                 loadVars, chlamyVars>>

\* lines 54-56: finally: for tmp_file in tmp_filenames: os.remove(tmp_file).
\* os.remove of a name that is not there raises FileNotFoundError, which
\* replaces whatever was being propagated.
MultiFinally ==
  /\ op = "multiple" /\ pc = "m_finally"
  /\ IF idx <= Len(tmp_filenames)
       THEN IF Exists(tmp_filenames[idx])
              THEN /\ fs' = RemoveFile(fs, tmp_filenames[idx])
                   /\ removed' = Append(removed, tmp_filenames[idx])
                   /\ idx' = idx + 1
                   /\ UNCHANGED <<pc, outcome>>
              ELSE /\ Finish(Raised("FileNotFoundError"))
                   /\ UNCHANGED <<fs, removed, idx>>
       ELSE /\ IF pending # ""
                 THEN Finish(Raised(pending))
                 ELSE pc' = "m_return" /\ UNCHANGED outcome
            /\ UNCHANGED <<fs, removed, idx>>
  /\ UNCHANGED <<op, archive, filenames, filename, tar_member, tmp_file,
                 tmp_filenames, buf, created, calls, pending, out,
                 loadVars, chlamyVars>>

\* line 57: return out; out is unbound when the if at line 51 was not taken.
MultiReturn ==
  /\ op = "multiple" /\ pc = "m_return"
  /\ IF out = UNBOUND
       THEN Finish(Raised("UnboundLocalError"))
       ELSE Finish(Returned(out))
  /\ UNCHANGED <<op, tarVars, loadVars, chlamyVars>>

\* ------------------------------------------------------------- the loaders
\* A path below DATA_DIRECTORY is the pair <<directory, file name>>.
NumPoints == 3     \* points of the Renishaw multipoint scan
Scans == [1..NumPoints -> 0..MaxByte]

\* An insertion-ordered dict is the sequence of its <<key, value>> items.
Keys(d) == [i \in 1..Len(d) |-> d[i][1]]
Values(d) == [i \in 1..Len(d) |-> d[i][2]]
Get(d, k) == d[CHOOSE i \in 1..Len(d) : d[i][1] = k][2]

\* The readers of the external library are opaque: a spectrum is known by
\* the reader that made it and the files it was given. A spectrum built
\* directly with RamanSpectrum(...) also carries the intensities it was given.
from_horiba_txtfile(p) ==
  [reader |-> "from_horiba_txtfile", args |-> <<p>>, intensities |-> <<>>]
from_renishaw_txtfile(p) ==
  [reader |-> "from_renishaw_txtfile", args |-> <<p>>, intensities |-> <<>>]
from_wasatch_csvfile(p) ==
  [reader |-> "from_wasatch_csvfile", args |-> <<p>>, intensities |-> <<>>]
from_generic_csvfile(p) ==
  [reader |-> "from_generic_csvfile", args |-> <<p>>, intensities |-> <<>>]
from_openraman_csvfiles(p, neon, acetonitrile) ==
  [reader |-> "from_openraman_csvfiles", args |-> <<p, neon, acetonitrile>>,
   intensities |-> <<>>]
read_renishaw_multipoint_txt(p) ==
  [file |-> p, intensities |-> [i \in 1..NumPoints |-> <<scan[i]>>]]

\* pd.DataFrame.from_records(records, columns=["instrument", "λ_nm"])
from_records(records) ==
  [i \in 1..Len(records) |->
     [instrument |-> records[i][1], wavelength |-> records[i][2]]]

\* lines 63-69
filepaths ==
  << << <<"horiba", 785>>,    <<"Horiba_MacroRAM", "acetonitrile.txt">> >>,
     << <<"renishaw", 785>>,  <<"Renishaw_Qontor", "acetonitrile_5x.txt">> >>,
     << <<"wasatch", 785>>,   <<"Wasatch_WP785X", "acetonitrile.csv">> >>,
     << <<"openraman", 532>>,
        <<"OpenRAMAN", "acetonitrile_n_n_n_solid_10000_0_5.csv">> >>,
     << <<"wasatch", 532>>,   <<"Wasatch_WP532X", "acetonitrile.csv">> >> >>

\* line 70
openraman_neon_calibration == <<"OpenRAMAN", "neon_n_n_n_solid_10000_0_5.csv">>

\* lines 73-83  (_reordered: the OpenRAMAN entry moved up one place)
acetonitrile_spectra_reordered ==
  << from_horiba_txtfile(Get(filepaths, <<"horiba", 785>>)),
     from_renishaw_txtfile(Get(filepaths, <<"renishaw", 785>>)),
     from_openraman_csvfiles(Get(filepaths, <<"openraman", 532>>),
                             openraman_neon_calibration,
                             Get(filepaths, <<"openraman", 532>>)),
     from_wasatch_csvfile(Get(filepaths, <<"wasatch", 785>>)),
     from_generic_csvfile(Get(filepaths, <<"wasatch", 532>>)) >>
acetonitrile_spectra ==
  << from_horiba_txtfile(Get(filepaths, <<"horiba", 785>>)),
     from_renishaw_txtfile(Get(filepaths, <<"renishaw", 785>>)),
     from_wasatch_csvfile(Get(filepaths, <<"wasatch", 785>>)),
     from_openraman_csvfiles(Get(filepaths, <<"openraman", 532>>),
                             openraman_neon_calibration,
                             Get(filepaths, <<"openraman", 532>>)),
     from_generic_csvfile(Get(filepaths, <<"wasatch", 532>>)) >>

\* lines 60-87: load_acetonitrile_spectra()
LoadAcetonitrile ==
  /\ op = "acetonitrile" /\ pc = "start"
  /\ spectra' = acetonitrile_spectra
  /\ dataframe' = from_records(Keys(filepaths))
  /\ Finish(Returned("spectra, dataframe"))
  /\ UNCHANGED <<op, tarVars, scan, chlamyVars>>

\* lines 93-94
horiba_spectrum ==
  from_horiba_txtfile(<<"Horiba_MacroRAM", "CC-124-TAP-2.txt">>)

\* lines 97-105
openraman_calibration_files ==
  << <<"OpenRAMAN", "neon_n_n_n_solid_10000_0_5.csv">>,
     <<"OpenRAMAN", "acetonitrile_n_n_n_solid_10000_0_5.csv">> >>
openraman_spectrum ==
  from_openraman_csvfiles(<<"OpenRAMAN", "CC-124_TAP_Pos-2-000_002.csv">>,
                          openraman_calibration_files[1],
                          openraman_calibration_files[2])

\* lines 110-112: the spectrum is built from row 0 of the intensities
renishaw_spectrum ==
  LET r == read_renishaw_multipoint_txt(
             <<"Renishaw_Qontor", "CC-124_TAP_plate_5x_3_points.txt">>)
  IN [reader |-> "read_renishaw_multipoint_txt", args |-> <<r.file>>,
      intensities |-> r.intensities[1]]

\* lines 115-116
wasatch_532_spectrum ==
  from_generic_csvfile(<<"Wasatch_WP532X", "CC-124_TAP_Pos-4-002_001.csv">>)

\* lines 119-120  (_generic: read with the generic CSV reader instead)
wasatch_785_spectrum_generic ==
  from_generic_csvfile(<<"Wasatch_WP785X", "CC-124_TAP_WP-02071.csv">>)
wasatch_785_spectrum ==
  from_wasatch_csvfile(<<"Wasatch_WP785X", "CC-124_TAP_WP-02071.csv">>)

\* lines 123-129  (_in_load_order: keys in the order the spectra were loaded)
mapped_spectra_in_load_order ==
  << << <<"horiba", 785>>,    horiba_spectrum >>,
     << <<"openraman", 532>>, openraman_spectrum >>,
     << <<"renishaw", 785>>,  renishaw_spectrum >>,
     << <<"wasatch", 532>>,   wasatch_532_spectrum >>,
     << <<"wasatch", 785>>,   wasatch_785_spectrum >> >>
mapped_spectra ==
  << << <<"horiba", 785>>,    horiba_spectrum >>,
     << <<"renishaw", 785>>,  renishaw_spectrum >>,
     << <<"wasatch", 785>>,   wasatch_785_spectrum >>,
     << <<"openraman", 532>>, openraman_spectrum >>,
     << <<"wasatch", 532>>,   wasatch_532_spectrum >> >>

\* lines 90-135: load_cc124_tap_spectra()
LoadCc124 ==
  /\ op = "cc124" /\ pc = "start"
  /\ spectra' = Values(mapped_spectra)
  /\ dataframe' = from_records(Keys(mapped_spectra))
  /\ Finish(Returned("spectra, dataframe"))
  /\ UNCHANGED <<op, tarVars, scan, chlamyVars>>

\* ----------------------------------------------------- load_chlamy_spectra
\* File names and paths are sequences of characters. "U+0663" stands for the
\* one character ARABIC-INDIC DIGIT THREE, a decimal digit outside ASCII.
Str_Site == <<"-", "S", "i", "t", "e", "_">>
Str_csv == <<".", "c", "s", "v">>

\* line 140
pattern == <<"*">> \o Str_Site \o <<"*">> \o Str_csv

\* fnmatch.fnmatch(name, pat) for a pattern of literals and '*', case kept.
RECURSIVE Glob(_, _, _, _)
Glob(name, i, pat, j) ==
  IF j > Len(pat) THEN i = Len(name) + 1
  ELSE IF pat[j] = "*"
         THEN \E k \in i..(Len(name) + 1) : Glob(name, k, pat, j + 1)
         ELSE /\ i <= Len(name)
              /\ name[i] = pat[j]
              /\ Glob(name, i + 1, pat, j + 1)
fnmatch(name, pat) == Glob(name, 1, pat, 1)

\* Character classes of the regular expression at line 157.
Class_A_H == {"A", "B", "C", "D", "E", "F", "G", "H"}
Class_1_9 == {"1", "2", "3", "4", "5", "6", "7", "8", "9"}
Class_0_2 == {"0", "1", "2"}
\* \d on a str pattern: every Unicode decimal digit
Class_d == {"0"} \cup Class_1_9 \cup {"U+0663"}

LitAt(name, p, lit) ==
  /\ p + Len(lit) - 1 <= Len(name)
  /\ SubSeq(name, p, p + Len(lit) - 1) = lit

\* $ : at the end of the string, or just before a newline that ends it
AtDollar(name, p) ==
  \/ p = Len(name) + 1
  \/ p = Len(name) /\ name[p] = "\n"

\* -Site_(\d+)\.csv$ from position p, with n characters taken by \d+
TailWith(name, p, n) ==
  /\ LitAt(name, p, Str_Site)
  /\ p + 5 + n <= Len(name)
  /\ \A q \in (p + 6)..(p + 5 + n) : name[q] \in Class_d
  /\ LitAt(name, p + 6 + n, Str_csv)
  /\ AtDollar(name, p + 10 + n)
TailMatches(name, p) == \E n \in 1..Len(name) : TailWith(name, p, n)
\* \d+ is greedy: the longest run that lets the rest match
TailSite(name, p) ==
  LET n == CHOOSE m \in 1..Len(name) :
             /\ TailWith(name, p, m)
             /\ \A k \in 1..Len(name) : TailWith(name, p, k) => k <= m
  IN SubSeq(name, p + 6, p + 5 + n)

NoMatch == [matched |-> FALSE, well_id |-> <<>>, site |-> <<>>]
Match(w, s) == [matched |-> TRUE, well_id |-> w, site |-> s]

\* line 158 (commented out in the source): the column alternation is not
\* grouped, ^([A-H][1-9]|1[0-2])-Site_(\d+)\.csv$, so a well is a letter and
\* one digit, or "10", "11", "12" without a letter.
re_match_ungrouped(name) ==
  IF Len(name) >= 2 /\ name[1] \in Class_A_H /\ name[2] \in Class_1_9
     /\ TailMatches(name, 3)
    THEN Match(SubSeq(name, 1, 2), TailSite(name, 3))
  ELSE IF Len(name) >= 2 /\ name[1] = "1" /\ name[2] \in Class_0_2
          /\ TailMatches(name, 3)
    THEN Match(SubSeq(name, 1, 2), TailSite(name, 3))
  ELSE NoMatch

\* line 157: re.match(r"^([A-H](?:[1-9]|1[0-2]))-Site_(\d+)\.csv$", filename)
\* The alternatives are tried in the order written.
re_match(name) ==
  IF Len(name) >= 1 /\ name[1] \in Class_A_H
    THEN IF Len(name) >= 2 /\ name[2] \in Class_1_9 /\ TailMatches(name, 3)
           THEN Match(SubSeq(name, 1, 2), TailSite(name, 3))
         ELSE IF Len(name) >= 3 /\ name[2] = "1" /\ name[3] \in Class_0_2
                 /\ TailMatches(name, 4)
           THEN Match(SubSeq(name, 1, 3), TailSite(name, 4))
         ELSE NoMatch
    ELSE NoMatch

\* os.path.join(root, filename) for a relative filename
Join(root, name) ==
  IF root = <<>> \/ root[Len(root)] = "/" THEN root \o name
  ELSE root \o <<"/">> \o name

\* Directories and file names a walk of data_directory may come across.
Roots == {<<"d">>, <<"d", "/", "s">>}
FileNames ==
    {<<"A", "1", "-", "S", "i", "t", "e", "_", "1", ".", "c", "s", "v">>,
     <<"A", "1", "0", "-", "S", "i", "t", "e", "_", "3", ".", "c", "s", "v">>,
     <<"H", "1", "2", "-", "S", "i", "t", "e", "_", "1", "2", ".", "c", "s", "v">>,
     <<"A", "1", "3", "-", "S", "i", "t", "e", "_", "1", ".", "c", "s", "v">>,
     <<"I", "1", "-", "S", "i", "t", "e", "_", "1", ".", "c", "s", "v">>,
     <<"x", "A", "1", "-", "S", "i", "t", "e", "_", "1", ".", "c", "s", "v">>,
     <<"A", "0", "-", "S", "i", "t", "e", "_", "1", ".", "c", "s", "v">>,
     <<"A", "0", "1", "-", "S", "i", "t", "e", "_", "1", ".", "c", "s", "v">>,
     <<"a", "1", "-", "S", "i", "t", "e", "_", "1", ".", "c", "s", "v">>,
     <<"B", "7", "-", "S", "i", "t", "e", "_", ".", "c", "s", "v">>,
     <<"B", "7", "-", "S", "i", "t", "e", "_", "x", ".", "c", "s", "v">>,
     <<"C", "2", "-", "S", "i", "t", "e", "_", "4", ".", "c", "s", "v", "x">>,
     <<"C", "2", "-", "S", "i", "t", "e", "_", "4", "x", "c", "s", "v">>,
     <<"C", "2", "-", "S", "i", "t", "e", "_", "4", ".", "c", "s", "v", "\n">>,
     <<"D", "5", "-", "S", "i", "t", "e", "_", "U+0663", ".", "c", "s", "v">>,
     <<"n", "o", "t", "e", "s", ".", "t", "x", "t">>}

\* lines 152, 157, 159: is the file loaded
IsLoaded(name) == fnmatch(name, pattern) /\ re_match(name).matched

\* line 168  (_outside_if: the append moved out of `if match`)
SiteAppended_outside_if(name) ==
  IF fnmatch(name, pattern) THEN Append(site_data, re_match(name).site)
  ELSE site_data
SiteAppended(name) ==
  IF IsLoaded(name) THEN Append(site_data, re_match(name).site) ELSE site_data

\* lines 150-168: os.walk yields the next file and the loop body handles it.
\* A directory's files come together, and no file comes twice.
ChlamyVisit ==
  /\ op = "chlamy" /\ pc = "walk"
  /\ Len(visited) < MaxWalk
  /\ \E root \in Roots, name \in FileNames :
       /\ \A k \in 1..Len(visited) : visited[k] # <<root, name>>
       /\ IF visited = <<>> THEN TRUE
          ELSE \/ visited[Len(visited)][1] = root
               \/ \A k \in 1..Len(visited) : visited[k][1] # root
       /\ visited' = Append(visited, <<root, name>>)
       /\ site_data' = SiteAppended(name)
       /\ IF IsLoaded(name)
            THEN LET filepath == Join(root, name)
                 IN /\ reads' = Append(reads, filepath)
                    /\ spectra' = Append(spectra, from_generic_csvfile(filepath))
                    /\ instrument_data' = Append(instrument_data, "wasatch")
                    /\ wavelength_data' = Append(wavelength_data, 785)
                    /\ well_id_data' = Append(well_id_data, re_match(name).well_id)
            ELSE UNCHANGED <<reads, spectra, instrument_data, wavelength_data,
                             well_id_data>>
  /\ UNCHANGED <<op, pc, outcome, tarVars, scan, dataframe>>

\* lines 171-178: pd.DataFrame(data) needs columns of one length
ChlamyReturn ==
  /\ op = "chlamy" /\ pc = "walk"
  /\ IF /\ Len(instrument_data) = Len(wavelength_data)
        /\ Len(instrument_data) = Len(well_id_data)
        /\ Len(instrument_data) = Len(site_data)
       THEN /\ dataframe' = [i \in 1..Len(instrument_data) |->
                               [instrument |-> instrument_data[i],
                                wavelength |-> wavelength_data[i],
                                well_ID    |-> well_id_data[i],
                                site       |-> site_data[i]]]
            /\ Finish(Returned("spectra, dataframe"))
       ELSE /\ Finish(Raised("ValueError"))
            /\ UNCHANGED dataframe
  /\ UNCHANGED <<op, tarVars, scan, spectra, chlamyVars>>

\* ------------------------------------------------------------ the program
Init ==
  /\ op \in {"single", "multiple", "acetonitrile", "cc124", "chlamy"}
  /\ pc = CASE op = "single" -> "s_extract"
            [] op = "multiple" -> "m_loop"
            [] op = "chlamy" -> "walk"
            [] OTHER -> "start"
  /\ outcome = NoOutcome
  /\ archive \in (IF op \in {"single", "multiple"} THEN Archives
                  ELSE {[n \in MemberNames |-> [kind |-> "missing", data |-> <<>>]]})
  /\ filenames \in (IF op = "multiple" THEN SeqsUpTo(MemberNames, MaxFilenames)
                    ELSE {<<>>})
  /\ filename \in (IF op = "single" THEN MemberNames ELSE {""})
  /\ idx = 1
  /\ tar_member = NONE
  /\ tmp_file = 0
  /\ tmp_filenames = <<>>
  /\ fs = <<>>
  /\ buf = <<>>
  /\ created = {}
  /\ removed = <<>>
  /\ calls = <<>>
  /\ pending = ""
  /\ out = UNBOUND
  /\ scan \in (IF op = "cc124" THEN Scans ELSE {[i \in 1..NumPoints |-> 0]})
  /\ spectra = <<>>
  /\ dataframe = <<>>
  /\ visited = <<>>
  /\ instrument_data = <<>>
  /\ wavelength_data = <<>>
  /\ well_id_data = <<>>
  /\ site_data = <<>>
  /\ reads = <<>>

Next ==
  \/ SingleExtract \/ SingleMktemp \/ SingleCopy \/ SingleFlush
  \/ SingleCall \/ SingleExit \/ SingleReturn
  \/ MultiLoop \/ MultiExtract \/ MultiMktemp \/ MultiCopy \/ MultiClose
  \/ MultiAppend \/ MultiCheck \/ MultiCall \/ MultiFinally \/ MultiReturn
  \/ LoadAcetonitrile \/ LoadCc124
  \/ ChlamyVisit \/ ChlamyReturn

Spec == Init /\ [][Next]_vars

\* ================================================================ claims
Rows(seq) == {seq[i] : i \in 1..Len(seq)}
Done(o) == op = o /\ pc = "done"

\* ---- load_chlamy_spectra
\* The path of a visited file: its directory, a separator, its name.
PathOf(v) == v[1] \o <<"/">> \o v[2]
\* The position in the walk of the file spectrum i was read from.
PosOf(i) == CHOOSE k \in 1..Len(visited) : <<PathOf(visited[k])>> = spectra[i].args

\* C1: in load_chlamy_spectra, after any prefix of the visited files the lists
\* spectra, instrument, wavelength, well_ID and site have one length; entry i
\* of well_ID and site, put back around "-Site_" and before ".csv", spell the
\* name of the file spectrum i was read from; the spectra follow the order of
\* the walk; and the returned table has one such row per spectrum.
C1_ParallelColumns ==
  op = "chlamy" =>
    /\ Len(instrument_data) = Len(spectra)
    /\ Len(wavelength_data) = Len(spectra)
    /\ Len(well_id_data) = Len(spectra)
    /\ Len(site_data) = Len(spectra)
    /\ \A i \in 1..Len(spectra) :
         /\ \E k \in 1..Len(visited) : <<PathOf(visited[k])>> = spectra[i].args
         /\ visited[PosOf(i)][2] =
              well_id_data[i] \o Str_Site \o site_data[i] \o Str_csv
    /\ \A i, j \in 1..Len(spectra) : i < j => PosOf(i) < PosOf(j)
    /\ pc = "done" =>
         /\ outcome.kind = "return"
         /\ Len(dataframe) = Len(spectra)
         /\ \A i \in 1..Len(spectra) :
              dataframe[i] = [instrument |-> "wasatch", wavelength |-> 785,
                              well_ID |-> well_id_data[i], site |-> site_data[i]]

\* Two files of different wells were loaded, and the table was returned.
C1_Witness ==
  /\ Done("chlamy")
  /\ Len(dataframe) = 2
  /\ dataframe[1].well_ID # dataframe[2].well_ID

\* A plate well file, as the naming scheme has it: a row letter A-H, a column
\* 1..12 in decimal, "-Site_", one or more decimal digits, ".csv".
RowLetters == {"A", "B", "C", "D", "E", "F", "G", "H"}
DigitChar == <<"0", "1", "2", "3", "4", "5", "6", "7", "8", "9">>
Decimal(n) ==
  IF n < 10 THEN <<DigitChar[n + 1]>>
  ELSE <<DigitChar[(n \div 10) + 1], DigitChar[(n % 10) + 1]>>
DecimalDigits == Rows(DigitChar) \cup {"U+0663"}
Wells == {<<l>> \o Decimal(c) : l \in RowLetters, c \in 1..12}
HasWell(name, w) ==
  LET head == w \o Str_Site
      from == Len(head) + 1
      to   == Len(name) - Len(Str_csv)
  IN /\ from <= to
     /\ SubSeq(name, 1, Len(head)) = head
     /\ \A q \in from..to : name[q] \in DecimalDigits
     /\ SubSeq(name, to + 1, Len(name)) = Str_csv
IsWellFile(name) == \E w \in Wells : HasWell(name, w)
WellOf(name) == CHOOSE w \in Wells : HasWell(name, w)
SiteOf(name) ==
  SubSeq(name, Len(WellOf(name)) + Len(Str_Site) + 1, Len(name) - Len(Str_csv))
IsWellEntry(v) == IsWellFile(v[2])
WellEntries == SelectSeq(visited, IsWellEntry)

\* C2: load_chlamy_spectra calls the reader once for every visited plate well
\* file, in the order of the walk, and for no other file; no file makes it
\* raise; the well_ID recorded is the letter with the whole column number
\* ("A10", not "A1") and the site is the digits after "-Site_".
C2_LoadsExactlyWellFiles ==
  op = "chlamy" =>
    /\ outcome.kind # "raise"
    /\ Len(reads) = Len(WellEntries)
    /\ \A i \in 1..Len(reads) :
         /\ reads[i] = PathOf(WellEntries[i])
         /\ i <= Len(well_id_data) /\ i <= Len(site_data)
         /\ well_id_data[i] = WellOf(WellEntries[i][2])
         /\ site_data[i] = SiteOf(WellEntries[i][2])

\* "A10-Site_3.csv" was loaded as well A10, site 3, and another file skipped.
C2_Witness ==
  /\ Done("chlamy")
  /\ Len(visited) = 2
  /\ Len(reads) = 1
  /\ well_id_data = << <<"A", "1", "0">> >>
  /\ site_data = << <<"3">> >>

\* ---- load_acetonitrile_spectra, load_cc124_tap_spectra
ExpectedRows ==
  << [instrument |-> "horiba",    wavelength |-> 785],
     [instrument |-> "renishaw",  wavelength |-> 785],
     [instrument |-> "wasatch",   wavelength |-> 785],
     [instrument |-> "openraman", wavelength |-> 532],
     [instrument |-> "wasatch",   wavelength |-> 532] >>

\* The data directory that holds the files of an instrument.
DirectoryOf(row) ==
  CASE row.instrument = "horiba" -> "Horiba_MacroRAM"
    [] row.instrument = "renishaw" -> "Renishaw_Qontor"
    [] row.instrument = "openraman" -> "OpenRAMAN"
    [] row.instrument = "wasatch" /\ row.wavelength = 785 -> "Wasatch_WP785X"
    [] row.instrument = "wasatch" /\ row.wavelength = 532 -> "Wasatch_WP532X"

\* C3: load_acetonitrile_spectra returns five spectra and five rows, the rows
\* in the order horiba 785, renishaw 785, wasatch 785, openraman 532,
\* wasatch 532, and spectrum i was read from the file the mapping gives for
\* row i, which lies in the directory of that row's instrument.
C3_AcetonitrileRowsMatchSpectra ==
  Done("acetonitrile") =>
    /\ outcome.kind = "return"
    /\ Len(spectra) = 5
    /\ dataframe = ExpectedRows
    /\ \A i \in 1..5 :
         /\ spectra[i].args[1] =
              Get(filepaths, <<dataframe[i].instrument, dataframe[i].wavelength>>)
         /\ spectra[i].args[1][1] = DirectoryOf(dataframe[i])

C3_Witness ==
  /\ Done("acetonitrile")
  /\ Len(spectra) = 5
  /\ Len(dataframe) = 5

\* The OpenRAMAN reader is given the sample, the neon file, the acetonitrile file.
NeonFile == <<"OpenRAMAN", "neon_n_n_n_solid_10000_0_5.csv">>
AcetonitrileFile == <<"OpenRAMAN", "acetonitrile_n_n_n_solid_10000_0_5.csv">>
SampleFile ==
  IF op = "acetonitrile" THEN AcetonitrileFile
  ELSE <<"OpenRAMAN", "CC-124_TAP_Pos-2-000_002.csv">>
OpenRamanArgsRight(s) == s.args = <<SampleFile, NeonFile, AcetonitrileFile>>

ReaderAsClaimed(row, s) ==
  CASE row.instrument = "horiba" -> s.reader = "from_horiba_txtfile"
    [] row.instrument = "renishaw" ->
         s.reader \in {"from_renishaw_txtfile", "read_renishaw_multipoint_txt"}
    [] row.instrument = "wasatch" -> s.reader = "from_wasatch_csvfile"
    [] row.instrument = "openraman" ->
         s.reader = "from_openraman_csvfiles" /\ OpenRamanArgsRight(s)

ReaderAsBuilt(row, s) ==
  CASE row.instrument = "horiba" -> s.reader = "from_horiba_txtfile"
    [] row.instrument = "renishaw" ->
         s.reader \in {"from_renishaw_txtfile", "read_renishaw_multipoint_txt"}
    [] row.instrument = "wasatch" /\ row.wavelength = 785 ->
         s.reader = "from_wasatch_csvfile"
    [] row.instrument = "wasatch" /\ row.wavelength = 532 ->
         s.reader = "from_generic_csvfile"
    [] row.instrument = "openraman" ->
         s.reader = "from_openraman_csvfiles" /\ OpenRamanArgsRight(s)

\* C4 as stated: in load_acetonitrile_spectra and load_cc124_tap_spectra every
\* spectrum is made by the reader of the instrument of its row, every wasatch
\* row (785 nm and 532 nm alike) by the Wasatch reader.
C4_AsStated ==
  (Done("acetonitrile") \/ Done("cc124")) =>
    \A i \in 1..Len(spectra) : ReaderAsClaimed(dataframe[i], spectra[i])

\* C4, amended: as above, except that the wasatch 532 nm row is made by the
\* generic CSV reader; only the wasatch 785 nm row is made by the Wasatch reader.
C4_ReaderPerInstrument ==
  (Done("acetonitrile") \/ Done("cc124")) =>
    /\ Len(spectra) = Len(dataframe)
    /\ \A i \in 1..Len(spectra) : ReaderAsBuilt(dataframe[i], spectra[i])

\* load_cc124_tap_spectra returned, with both wasatch rows present.
C4_Witness ==
  /\ Done("cc124")
  /\ \E i, j \in 1..Len(spectra) :
       /\ dataframe[i] = [instrument |-> "wasatch", wavelength |-> 785]
       /\ spectra[i].reader = "from_wasatch_csvfile"
       /\ dataframe[j] = [instrument |-> "wasatch", wavelength |-> 532]
       /\ spectra[j].reader = "from_generic_csvfile"

\* C10: both loaders return the table horiba 785, renishaw 785, wasatch 785,
\* openraman 532, wasatch 532; in load_cc124_tap_spectra spectrum i was read
\* from a file of the instrument of row i, and the renishaw spectrum carries
\* the first point of the multipoint scan.
C10_SameTableFirstPoint ==
  /\ (Done("acetonitrile") \/ Done("cc124")) => dataframe = ExpectedRows
  /\ Done("cc124") =>
       /\ Len(spectra) = 5
       /\ \A i \in 1..5 :
            /\ spectra[i].args[1][1] = DirectoryOf(ExpectedRows[i])
            /\ ExpectedRows[i].instrument = "renishaw" =>
                 spectra[i].intensities = <<scan[1]>>

\* The first point of the scan differs from the other two.
C10_Witness ==
  /\ Done("cc124")
  /\ Len(spectra) = 5
  /\ scan[1] # scan[2]
  /\ scan[1] # scan[3]

\* ---- tar_wrapper_single
\* C5: tar_wrapper_single calls the function at most once, and exactly once
\* when the member is a regular file; at the call the temporary path exists
\* and holds on disk exactly the member's bytes; the wrapper ends as the
\* function did (same value returned, same exception raised); and once it has
\* ended, by return or by any exception, its temporary file is gone.
C5_SingleCallOnFullCopy ==
  op = "single" =>
    /\ Len(calls) <= 1
    /\ \A c \in Rows(calls) :
         /\ Len(c.args) = 1
         /\ archive[filename].kind = "file"
         /\ c.exist[1]
         /\ c.seen[1] = archive[filename].data
    /\ pc = "done" =>
         /\ created \cap DOMAIN fs = {}
         /\ archive[filename].kind = "file" =>
              Len(calls) = 1 /\ outcome = calls[1].result
         /\ outcome.kind = "return" => Len(calls) = 1

\* A non-empty member was handed over and the wrapper returned.
C5_Witness ==
  /\ Done("single")
  /\ outcome.kind = "return"
  /\ Len(calls) = 1
  /\ calls[1].seen[1] # <<>>
  /\ created # {}

\* ---- tar_wrapper_multiple
AllRegular == \A i \in 1..Len(filenames) : archive[filenames[i]].kind = "file"
AllExist == \A i \in 1..Len(filenames) : archive[filenames[i]].kind # "missing"

\* C6: for a non-empty list of regular members tar_wrapper_multiple calls the
\* function at most once and, by the time it ends, exactly once; the call gets
\* one path per filename, pairwise distinct, all existing, the i-th holding
\* the bytes of the i-th named member; a returning function's value is what
\* the wrapper returns.
C6_MultipleCallInOrder ==
  (op = "multiple" /\ filenames # <<>> /\ AllRegular) =>
    /\ Len(calls) <= 1
    /\ \A c \in Rows(calls) :
         /\ Len(c.args) = Len(filenames)
         /\ \A i, j \in 1..Len(c.args) : i # j => c.args[i] # c.args[j]
         /\ \A i \in 1..Len(c.args) :
              c.exist[i] /\ c.seen[i] = archive[filenames[i]].data
    /\ pc = "done" =>
         /\ Len(calls) = 1
         /\ calls[1].result.kind = "return" => outcome = calls[1].result

\* Two members of different content were handed over and the wrapper returned.
C6_Witness ==
  /\ Done("multiple")
  /\ outcome.kind = "return"
  /\ Len(calls) = 1
  /\ Len(calls[1].args) = 2
  /\ calls[1].seen[1] # calls[1].seen[2]

\* C7 as stated: however tar_wrapper_multiple ends, none of the temporary
\* files it created is left.
C7_NoTempFileLeft ==
  Done("multiple") => created \cap DOMAIN fs = {}

\* C8: when the function given to tar_wrapper_multiple raises, the wrapper
\* removes every temporary file it created, each once, and ends by raising
\* the function's exception.
C8_RaiseAfterCleanup ==
  (Done("multiple") /\ calls # <<>> /\ calls[Len(calls)].result.kind = "raise") =>
    /\ outcome = calls[1].result
    /\ created \cap DOMAIN fs = {}
    /\ Rows(removed) = created
    /\ Len(removed) = Cardinality(created)

\* The function raised after two files had been extracted.
C8_Witness ==
  /\ Done("multiple")
  /\ outcome = Raised("FnError")
  /\ Len(removed) = 2

\* C9 as stated: whenever the named members all exist and the function does
\* not raise, tar_wrapper_multiple ends by returning the function's result,
\* for the empty list too.
C9_AlwaysReturnsResult ==
  (Done("multiple") /\ AllExist /\ \A c \in Rows(calls) : c.result.kind = "return") =>
    /\ outcome.kind = "return"
    /\ Len(calls) = 1
    /\ outcome = calls[1].result

====
